---- MODULE Spec2Model ----
(***************************************************************************)
(* Model of ct_moniteur.binary_reader.BinaryReader: a cursor (_offset)     *)
(* over a read-only byte buffer (_data) with a fixed byte order            *)
(* (_endianness).  Every public method is one action; the method bodies    *)
(* are operators that return the new offset together with the outcome of   *)
(* the call (a value, or the exception that was raised).                   *)
(***************************************************************************)
EXTENDS Integers, Sequences, FiniteSets, TLC

\* ---- bounds of the model ------------------------------------------------
\* longest buffer built from ByteVals (the scenario buffers add a 4-byte one)
MaxLen == 3
\* lowest offset the model follows is -MaxNeg (skip accepts negative counts)
MaxNeg == 1
\* widest integer decode the model evaluates (TLC integers are 32 bit)
MaxIntBytes == 2

\* byte values the buffers are built from
ByteVals == {0, 1, 255}
\* buffers of the worked scenarios
ScenarioBuffers == {<<0, 1, 2, 3>>, <<1, 2>>, <<127>>}

RECURSIVE SeqsUpTo(_, _)
SeqsUpTo(S, n) ==
    IF n = 0 THEN {<<>>}
    ELSE LET shorter == SeqsUpTo(S, n - 1)
         IN shorter \cup {Append(s, b) : s \in {t \in shorter : Len(t) = n - 1}, b \in S}

Buffers == SeqsUpTo(ByteVals, MaxLen) \cup ScenarioBuffers

\* arguments the callers pass: negative, zero, in range, past the end, far past
Args == (-MaxNeg .. (MaxLen + 1)) \cup {10}

\* ---- enumerations ---------------------------------------------------------
UINT == "unsigned"
INT == "signed"
BOOL == "bool"
BYTES == "bytes"
DataType == {UINT, INT, BOOL, BYTES}

BIG == "big"
LITTLE == "little"
Endianness == {BIG, LITTLE}

\* ---- exceptions: the messages the code raises ------------------------------
MsgSizePositive == "Size must be positive"
MsgCannotRead == "Cannot read"
MsgBoolSize == "Bool must be 1 byte"
MsgUnknownType == "Unknown data type"
MsgCannotSkip == "Cannot skip"
MsgInvalidSeek == "Invalid seek offset"
MsgCannotPeek == "Cannot peek"
MsgIndexError == "index out of bounds"
NoError == ""

\* the error kind each message stands for
ErrorKind(msg) ==
    CASE msg \in {MsgSizePositive, MsgBoolSize} -> "InvalidSize"
      [] msg \in {MsgCannotRead, MsgCannotSkip, MsgCannotPeek} -> "OutOfBounds"
      [] msg = MsgInvalidSeek -> "InvalidOffset"
      [] msg = NoError -> "none"
      [] OTHER -> "other"

\* ---- helpers ---------------------------------------------------------------
Min(a, b) == IF a < b THEN a ELSE b
Max(a, b) == IF a > b THEN a ELSE b

\* index normalisation of a slice bound: negative bounds count from the end
SliceIndex(i, n) == IF i < 0 THEN Max(i + n, 0) ELSE Min(i, n)

\* d[start:stop] of a memoryview (step 1)
PySlice(d, start, stop) ==
    LET s == SliceIndex(start, Len(d))
        e == SliceIndex(stop, Len(d))
    IN IF s < e THEN SubSeq(d, s + 1, e) ELSE <<>>

RECURSIVE Pow256(_)
Pow256(n) == IF n = 0 THEN 1 ELSE 256 * Pow256(n - 1)

RECURSIVE BigValue(_)
BigValue(bs) ==
    IF Len(bs) = 0 THEN 0
    ELSE 256 * BigValue(SubSeq(bs, 1, Len(bs) - 1)) + bs[Len(bs)]

RECURSIVE LittleValue(_)
LittleValue(bs) ==
    IF Len(bs) = 0 THEN 0
    ELSE bs[1] + 256 * LittleValue(SubSeq(bs, 2, Len(bs)))

\* int.from_bytes that always takes the first byte as the most significant
from_bytes_ignores_order(view, byteorder, signed) ==
    LET u == BigValue(view)
        n == Len(view)
    IN IF signed /\ n > 0 /\ u >= Pow256(n) \div 2 THEN u - Pow256(n) ELSE u

\* int.from_bytes(view, byteorder=..., signed=...)
from_bytes(view, byteorder, signed) ==
    LET u == IF byteorder = BIG THEN BigValue(view) ELSE LittleValue(view)
        n == Len(view)
    IN IF signed /\ n > 0 /\ u >= Pow256(n) \div 2 THEN u - Pow256(n) ELSE u

\* ---- integers wider than 32 bits --------------------------------------------
\* Python's int is unbounded: a wide value is a sequence of limbs in base
\* LimbBase, least significant limb first
LimbBase == 10000

\* w * m + c
RECURSIVE WideMulAdd(_, _, _)
WideMulAdd(w, m, c) ==
    IF Len(w) = 0
    THEN IF c = 0 THEN <<>> ELSE <<c % LimbBase>> \o WideMulAdd(<<>>, m, c \div LimbBase)
    ELSE LET t == w[1] * m + c
         IN <<t % LimbBase>> \o WideMulAdd(Tail(w), m, t \div LimbBase)

\* quotient and remainder of w by d
RECURSIVE WideDivMod(_, _)
WideDivMod(w, d) ==
    IF Len(w) = 0 THEN [q |-> <<>>, r |-> 0]
    ELSE LET hi == WideDivMod(Tail(w), d)
             t == hi.r * LimbBase + w[1]
         IN [q |-> <<t \div d>> \o hi.q, r |-> t % d]

WideIsZero(w) == \A i \in DOMAIN w : w[i] = 0

Reverse(bs) == [i \in 1 .. Len(bs) |-> bs[Len(bs) + 1 - i]]

\* most significant byte first: value = value * 256 + byte, byte by byte
RECURSIVE WideBigValue(_)
WideBigValue(bs) ==
    IF Len(bs) = 0 THEN <<>>
    ELSE WideMulAdd(WideBigValue(SubSeq(bs, 1, Len(bs) - 1)), 256, bs[Len(bs)])

\* int.from_bytes read least significant byte first instead
wide_from_bytes_swapped(view, byteorder) ==
    IF byteorder = BIG THEN WideBigValue(Reverse(view)) ELSE WideBigValue(view)

\* int.from_bytes(view, byteorder=..., signed=False) without a width limit
wide_from_bytes(view, byteorder) ==
    IF byteorder = BIG THEN WideBigValue(view) ELSE WideBigValue(Reverse(view))

OverflowError == <<-1>>

\* value.to_bytes(k, "big"): k digits in base 256, taken from the low end
RECURSIVE to_bytes_big(_, _)
to_bytes_big(w, k) ==
    IF k = 0 THEN (IF WideIsZero(w) THEN <<>> ELSE OverflowError)
    ELSE LET dm == WideDivMod(w, 256)
             front == to_bytes_big(dm.q, k - 1)
         IN IF front = OverflowError THEN OverflowError ELSE Append(front, dm.r)

\* outcome of a call: the offset it leaves and what the caller gets back
Raise(off, msg) ==
    [offset |-> off, ok |-> FALSE, err |-> msg, bytes |-> <<>>, num |-> 0, flag |-> FALSE]
ReturnNone(off) ==
    [offset |-> off, ok |-> TRUE, err |-> NoError, bytes |-> <<>>, num |-> 0, flag |-> FALSE]
ReturnBytes(off, bs) ==
    [offset |-> off, ok |-> TRUE, err |-> NoError, bytes |-> bs, num |-> 0, flag |-> FALSE]
ReturnInt(off, n) ==
    [offset |-> off, ok |-> TRUE, err |-> NoError, bytes |-> <<>>, num |-> n, flag |-> FALSE]
ReturnBool(off, b) ==
    [offset |-> off, ok |-> TRUE, err |-> NoError, bytes |-> <<>>, num |-> 0, flag |-> b]

\* ---- the methods -----------------------------------------------------------
offset_get(off) == off

remaining(d, off) == Len(d) - off

size(d) == Len(d)

\* has_bytes with a strict comparison
has_bytes_strict(d, off, count) == off + count < Len(d)

\* has_bytes that lets one byte past the end through
has_bytes_lax(d, off, count) == off + count <= Len(d) + 1

has_bytes(d, off, count) == off + count <= Len(d)

\* read whose Bool decode compares the byte with 1
read_bool_is_one(d, off, e, data_type, sz) ==
    IF sz <= 0 THEN Raise(off, MsgSizePositive)
    ELSE IF ~has_bytes(d, off, sz) THEN Raise(off, MsgCannotRead)
    ELSE LET data_view == PySlice(d, off, off + sz)
             advanced == off + sz
         IN IF data_type = BYTES THEN ReturnBytes(advanced, data_view)
            ELSE IF data_type = BOOL
                 THEN IF sz # 1 THEN Raise(advanced, MsgBoolSize)
                      ELSE IF Len(data_view) = 0 THEN Raise(advanced, MsgIndexError)
                      ELSE ReturnBool(advanced, data_view[1] = 1)
            ELSE IF data_type = UINT
                 THEN ReturnInt(advanced, from_bytes(data_view, e, FALSE))
            ELSE IF data_type = INT
                 THEN ReturnInt(advanced, from_bytes(data_view, e, TRUE))
            ELSE Raise(advanced, MsgUnknownType)

read(d, off, e, data_type, sz) ==
    IF sz <= 0 THEN Raise(off, MsgSizePositive)
    ELSE IF ~has_bytes(d, off, sz) THEN Raise(off, MsgCannotRead)
    ELSE LET data_view == PySlice(d, off, off + sz)
             advanced == off + sz
         IN IF data_type = BYTES THEN ReturnBytes(advanced, data_view)
            ELSE IF data_type = BOOL
                 THEN IF sz # 1 THEN Raise(advanced, MsgBoolSize)
                      ELSE IF Len(data_view) = 0 THEN Raise(advanced, MsgIndexError)
                      ELSE ReturnBool(advanced, data_view[1] # 0)
            ELSE IF data_type = UINT
                 THEN ReturnInt(advanced, from_bytes(data_view, e, FALSE))
            ELSE IF data_type = INT
                 THEN ReturnInt(advanced, from_bytes(data_view, e, TRUE))
            ELSE Raise(advanced, MsgUnknownType)

\* skip that moves the cursor before checking the bound
skip_unchecked(d, off, count) ==
    IF ~has_bytes(d, off, count) THEN Raise(off + count, MsgCannotSkip)
    ELSE ReturnNone(off + count)

skip(d, off, count) ==
    IF ~has_bytes(d, off, count) THEN Raise(off, MsgCannotSkip)
    ELSE ReturnNone(off + count)

\* seek without the lower bound check
seek_no_lower(d, off, target) ==
    IF target > Len(d) THEN Raise(off, MsgInvalidSeek)
    ELSE ReturnNone(target)

\* seek that refuses to move the cursor backwards
seek_forward_only(d, off, target) ==
    IF target < off \/ target > Len(d) THEN Raise(off, MsgInvalidSeek)
    ELSE ReturnNone(target)

seek(d, off, target) ==
    IF target < 0 \/ target > Len(d) THEN Raise(off, MsgInvalidSeek)
    ELSE ReturnNone(target)

\* peek that stops one byte early
peek_short(d, off, sz) ==
    IF ~has_bytes(d, off, sz) THEN Raise(off, MsgCannotPeek)
    ELSE ReturnBytes(off, PySlice(d, off, off + sz - 1))

\* peek that consumes what it returns
peek_advancing(d, off, sz) ==
    IF ~has_bytes(d, off, sz) THEN Raise(off, MsgCannotPeek)
    ELSE ReturnBytes(off + sz, PySlice(d, off, off + sz))

peek(d, off, sz) ==
    IF ~has_bytes(d, off, sz) THEN Raise(off, MsgCannotPeek)
    ELSE ReturnBytes(off, PySlice(d, off, off + sz))

\* ---- state -----------------------------------------------------------------
VARIABLES
    data,        \* self._data
    offset,      \* self._offset
    endianness,  \* self._endianness
    call,        \* the last call: method, kind, argument, offset before it
    ret,         \* what the last call returned or raised
    peeked,      \* result of the successful peek(n) right before a read(_, n)
    chain,       \* results of the read(BYTES, _) calls made in a row from offset 0
    wide,        \* an integer too wide for ret.num, as limbs (least significant first)
    encoded      \* the bytes the caller re-encoded from wide

vars == <<data, offset, endianness, call, ret, peeked, chain, wide, encoded>>

NoPeek == <<>>

\* a reader at offset 0 that has consumed nothing yet
FreshChain == [live |-> TRUE, bytes |-> <<>>]
\* the cursor was moved by something else than a read(BYTES, _)
DeadChain == [live |-> FALSE, bytes |-> <<>>]

\* the chain after a call: a seek starts over, a successful skip or typed read
\* ends it, a successful read(BYTES, _) extends it, anything else keeps it
NextChain(op, kind, out) ==
    IF ~out.ok \/ op \in {"offset", "remaining", "size", "has_bytes", "peek"} THEN chain
    ELSE IF op = "seek" THEN (IF out.offset = 0 THEN FreshChain ELSE DeadChain)
    ELSE IF op = "skip" THEN (IF out.offset = offset THEN chain ELSE DeadChain)
    ELSE IF kind = BYTES /\ chain.live
         THEN [live |-> TRUE, bytes |-> chain.bytes \o out.bytes]
    ELSE DeadChain

Init ==
    /\ data \in Buffers
    /\ endianness \in Endianness
    /\ offset = 0
    /\ call = [op |-> "init", kind |-> "", arg |-> 0, pre |-> 0]
    /\ ret = ReturnNone(0)
    /\ peeked = NoPeek
    /\ chain = FreshChain
    /\ wide = <<>>
    /\ encoded = <<>>

\* a call completes, and a successful read drops the bytes it returned
Finish_destructive(op, kind, arg, out) ==
    /\ out.offset >= -MaxNeg
    /\ offset' = out.offset
    /\ call' = [op |-> op, kind |-> kind, arg |-> arg, pre |-> offset]
    /\ ret' = out
    /\ peeked' = IF op = "read" /\ call.op = "peek" /\ ret.ok /\ call.arg = arg
                 THEN <<ret.bytes>> ELSE NoPeek
    /\ chain' = NextChain(op, kind, out)
    /\ data' = IF op = "read" /\ out.ok THEN PySlice(data, arg, Len(data)) ELSE data
    /\ UNCHANGED <<endianness, wide, encoded>>

\* a call completes: the outcome is recorded and the offset it left is stored
Finish(op, kind, arg, out) ==
    /\ out.offset >= -MaxNeg
    /\ offset' = out.offset
    /\ call' = [op |-> op, kind |-> kind, arg |-> arg, pre |-> offset]
    /\ ret' = out
    /\ peeked' = IF op = "read" /\ call.op = "peek" /\ ret.ok /\ call.arg = arg
                 THEN <<ret.bytes>> ELSE NoPeek
    /\ chain' = NextChain(op, kind, out)
    /\ UNCHANGED <<data, endianness, wide, encoded>>

\* an integer decode the model can evaluate
Decodable(kind, sz) ==
    kind \in {UINT, INT} => Len(PySlice(data, offset, offset + sz)) <= MaxIntBytes

Read ==
    \E kind \in DataType, sz \in Args :
        /\ Decodable(kind, sz)
        /\ Finish("read", kind, sz, read(data, offset, endianness, kind, sz))

Skip ==
    \E count \in Args : Finish("skip", "", count, skip(data, offset, count))

Seek ==
    \E target \in Args : Finish("seek", "", target, seek(data, offset, target))

Peek ==
    \E sz \in Args : Finish("peek", "", sz, peek(data, offset, sz))

HasBytes ==
    \E count \in Args :
        Finish("has_bytes", "", count, ReturnBool(offset, has_bytes(data, offset, count)))

Offset == Finish("offset", "", 0, ReturnInt(offset, offset_get(offset)))

Remaining == Finish("remaining", "", 0, ReturnInt(offset, remaining(data, offset)))

Size == Finish("size", "", 0, ReturnInt(offset, size(data)))

Next == Read \/ Skip \/ Seek \/ Peek \/ HasBytes \/ Offset \/ Remaining \/ Size

Spec == Init /\ [][Next]_vars

\* ---- decoding integers of 1, 2, 4 and 8 bytes and encoding them again --------
RoundTripWidths == {1, 2, 4, 8}

RECURSIVE SeqsOfLen(_, _)
SeqsOfLen(S, n) ==
    IF n = 0 THEN {<<>>}
    ELSE {Append(s, b) : s \in SeqsOfLen(S, n - 1), b \in S}

RoundTripBuffers == UNION {SeqsOfLen(ByteVals, k) : k \in RoundTripWidths}

InitRT ==
    /\ data \in RoundTripBuffers
    /\ endianness \in Endianness
    /\ offset = 0
    /\ call = [op |-> "init", kind |-> "", arg |-> 0, pre |-> 0]
    /\ ret = ReturnNone(0)
    /\ peeked = NoPeek
    /\ chain = FreshChain
    /\ wide = <<>>
    /\ encoded = <<>>

\* read(UINT, sz): the checks, the slice and the cursor are those of read; the
\* integer returned goes to wide instead of ret.num
ReadWide ==
    \E sz \in RoundTripWidths :
        LET out == read(data, offset, endianness, BYTES, sz)
        IN /\ offset' = out.offset
           /\ call' = [op |-> "read", kind |-> UINT, arg |-> sz, pre |-> offset]
           /\ ret' = IF out.ok THEN ReturnNone(out.offset) ELSE out
           /\ wide' = IF out.ok THEN wide_from_bytes(out.bytes, endianness) ELSE <<>>
           /\ encoded' = <<>>
           /\ chain' = NextChain("read", UINT, out)
           /\ peeked' = NoPeek
           /\ UNCHANGED <<data, endianness>>

\* the caller encodes the integer it just read as big-endian bytes of that width
Encode ==
    /\ call.op = "read" /\ ret.ok
    /\ encoded' = to_bytes_big(wide, call.arg)
    /\ call' = [op |-> "to_bytes", kind |-> UINT, arg |-> call.arg, pre |-> call.pre]
    /\ UNCHANGED <<data, offset, endianness, ret, peeked, chain, wide>>

NextRT == ReadWide \/ Encode

SpecRT == InitRT /\ [][NextRT]_vars

\* ---- properties ------------------------------------------------------------
MutatingOps == {"read", "skip", "seek"}
QueryOps == {"offset", "remaining", "size", "has_bytes", "peek"}

\* C1: the offset stays within 0..size() in the initial state and after every
\* call, whatever the arguments and whether the call succeeded or failed.
C1_OffsetInBounds == 0 <= offset /\ offset <= size(data)

\* C2: a read, skip or seek that fails leaves the offset where it was before
\* the call.
C2_FailureLeavesOffset ==
    (call.op \in MutatingOps /\ ~ret.ok) => offset = call.pre

\* C3: read checks the size first (non-positive size, or Bool with size # 1,
\* is InvalidSize) and only then the bound (OutOfBounds); read(Bool, 2) is
\* InvalidSize whether or not 2 bytes remain.
C3_ValidationOrder ==
    call.op = "read" =>
        IF call.arg <= 0 \/ (call.kind = BOOL /\ call.arg # 1)
        THEN ~ret.ok /\ ErrorKind(ret.err) = "InvalidSize"
        ELSE (call.pre + call.arg > Len(data)) =>
                 (~ret.ok /\ ErrorKind(ret.err) = "OutOfBounds")

\* C4: a successful read advances the offset by exactly size, and a RawBytes
\* read returns the size bytes buffer[old_offset .. old_offset+size) in order.
C4_ReadConsumesExactly ==
    (call.op = "read" /\ ret.ok) =>
        /\ offset = call.pre + call.arg
        /\ call.kind = BYTES =>
              /\ Len(ret.bytes) = call.arg
              /\ \A i \in 1 .. call.arg :
                     /\ call.pre + i \in DOMAIN data
                     /\ ret.bytes[i] = data[call.pre + i]

\* C5 as stated: for every n for which peek(n) succeeds, the read(RawBytes, n)
\* that immediately follows succeeds, returns the bytes peek returned and
\* advances the offset by n.
C5_PeekThenReadAnyN ==
    (call.op = "read" /\ call.kind = BYTES /\ peeked # NoPeek) =>
        /\ ret.ok
        /\ ret.bytes = peeked[1]
        /\ offset = call.pre + call.arg

\* C5 amended: for every n >= 1 for which peek(n) succeeds, the
\* read(RawBytes, n) that immediately follows succeeds, returns the bytes peek
\* returned and advances the offset by n.
C5_PeekThenRead ==
    (call.op = "read" /\ call.kind = BYTES /\ peeked # NoPeek /\ call.arg >= 1) =>
        /\ ret.ok
        /\ ret.bytes = peeked[1]
        /\ offset = call.pre + call.arg

C5_Witness ==
    /\ call.op = "read" /\ call.kind = BYTES /\ call.arg >= 2
    /\ peeked # NoPeek
    /\ ret.ok /\ Len(ret.bytes) = call.arg
    /\ ret.bytes[1] # ret.bytes[2]

\* C6: offset(), remaining(), size(), has_bytes(n) and peek(n) change nothing
\* (offset, buffer and byte order stay as they were, also when peek fails),
\* and the same query asked again right away gives the same answer.
C6_QueriesDoNotMutate ==
    [][call'.op \in QueryOps =>
          /\ offset' = offset /\ data' = data /\ endianness' = endianness
          /\ (call.op = call'.op /\ call.arg = call'.arg) => ret' = ret]_vars

C6_Witness ==
    /\ call.op = "peek" /\ ret.ok /\ Len(ret.bytes) >= 1
    /\ call.pre >= 1 /\ offset = call.pre

\* C7: has_bytes(n) answers offset + n <= length(buffer); has_bytes(remaining())
\* is true, has_bytes(remaining() + 1) is false, and remaining() is
\* size() - offset().
C7_HasBytesBoundary ==
    /\ has_bytes(data, offset, remaining(data, offset))
    /\ ~has_bytes(data, offset, remaining(data, offset) + 1)
    /\ remaining(data, offset) = size(data) - offset_get(offset)
    /\ call.op = "has_bytes" => ret.flag = (call.pre + call.arg <= Len(data))
    /\ call.op = "remaining" => ret.num = Len(data) - call.pre

C7_Witness ==
    /\ call.op = "has_bytes" /\ ret.flag
    /\ call.arg >= 1 /\ call.arg = remaining(data, offset)

\* C8: skip(n) succeeds exactly when offset + n <= length(buffer) and then
\* advances the offset by n (skip(0) always succeeds and moves nothing);
\* otherwise it fails with OutOfBounds and the offset stays; skip(10) on a
\* fresh 4-byte buffer fails with the offset still 0.
C8_SkipContract ==
    call.op = "skip" =>
        /\ IF call.pre + call.arg <= Len(data)
           THEN ret.ok /\ offset = call.pre + call.arg
           ELSE ~ret.ok /\ ErrorKind(ret.err) = "OutOfBounds" /\ offset = call.pre
        /\ call.arg = 0 => (ret.ok /\ offset = call.pre)
        /\ (Len(data) = 4 /\ call.pre = 0 /\ call.arg = 10) => (~ret.ok /\ offset = 0)

C8_Witness ==
    /\ call.op = "skip" /\ Len(data) = 4 /\ call.pre = 0 /\ call.arg = 10
    /\ ~ret.ok /\ offset = 0

\* C9: read and skip only move the cursor forward: a successful read or skip
\* leaves the offset at or above its value before the call, and only seek can
\* lower the offset.
C9_ReadSkipMonotonic ==
    /\ (call.op \in {"read", "skip"} /\ ret.ok) => offset >= call.pre
    /\ offset < call.pre => call.op = "seek"

\* C10: seek(k) succeeds exactly when 0 <= k <= length(buffer) and then the
\* offset is k wherever it was; otherwise it fails with InvalidOffset and the
\* offset stays; seek(size()) succeeds and leaves remaining() = 0.
C10_SeekContract ==
    call.op = "seek" =>
        /\ IF 0 <= call.arg /\ call.arg <= Len(data)
           THEN ret.ok /\ offset = call.arg
           ELSE ~ret.ok /\ ErrorKind(ret.err) = "InvalidOffset" /\ offset = call.pre
        /\ call.arg = size(data) => (ret.ok /\ remaining(data, offset) = 0)

C10_Witness ==
    /\ call.op = "seek" /\ ret.ok
    /\ call.arg < call.pre /\ offset = call.arg

\* the value the bytes buffer[off .. off+sz) stand for, most significant byte
\* first (BIG) or last (LITTLE): the sum of b[i] * 256^(position weight)
RECURSIVE PositionalSum(_, _, _, _, _)
PositionalSum(d, off, sz, e, i) ==
    IF i > sz THEN 0
    ELSE d[off + i] * Pow256(IF e = BIG THEN sz - i ELSE i - 1)
         + PositionalSum(d, off, sz, e, i + 1)

\* C11: a successful read(UnsignedInt, size) returns the sum of
\* b[i] * 256^(size-1-i) (Big) or b[i] * 256^i (Little) over the consumed bytes
\* b = buffer[old_offset .. old_offset+size); on [0,1,2,3] big-endian two 2-byte
\* reads give 1 then 515 at offsets 2 then 4, on [1,2] little-endian 513.
C11_UnsignedDecode ==
    (call.op = "read" /\ call.kind = UINT /\ ret.ok) =>
        /\ \A i \in 1 .. call.arg : call.pre + i \in DOMAIN data
        /\ ret.num = PositionalSum(data, call.pre, call.arg, endianness, 1)
        /\ (data = <<0, 1, 2, 3>> /\ endianness = BIG /\ call.arg = 2 /\ call.pre = 0)
               => (ret.num = 1 /\ offset = 2)
        /\ (data = <<0, 1, 2, 3>> /\ endianness = BIG /\ call.arg = 2 /\ call.pre = 2)
               => (ret.num = 515 /\ offset = 4)
        /\ (data = <<1, 2>> /\ endianness = LITTLE /\ call.arg = 2 /\ call.pre = 0)
               => ret.num = 513

\* the unsigned value of the same bytes under the same byte order
UnsignedOfCall == read(data, call.pre, endianness, UINT, call.arg).num

\* two's complement of u over 8*sz bits; a u that fits MaxIntBytes bytes is
\* below 2^(8*sz-1) for every wider sz
TwosComplement(u, sz) ==
    IF sz > MaxIntBytes THEN u
    ELSE IF u < Pow256(sz) \div 2 THEN u ELSE u - Pow256(sz)

\* C12: a successful read(SignedInt, size) returns u when u < 2^(8*size-1) and
\* u - 2^(8*size) otherwise, u being what read(UnsignedInt, size) returns for
\* the same bytes and byte order, in Big and in Little readers.
C12_SignedDecode ==
    (call.op = "read" /\ call.kind = INT /\ ret.ok) =>
        ret.num = TwosComplement(UnsignedOfCall, call.arg)

\* C13: a Big reader at offset 0 of a k-byte buffer reads an unsigned integer
\* of k bytes; encoding that integer as k big-endian bytes gives the buffer
\* back, leading zero bytes included, for k = 1, 2, 4, 8.
C13_RoundTrip ==
    (call.op = "to_bytes" /\ endianness = BIG /\ call.pre = 0 /\ call.arg = Len(data)) =>
        encoded = data

C13_Witness ==
    /\ call.op = "to_bytes" /\ endianness = BIG /\ call.pre = 0
    /\ call.arg = 8 /\ Len(data) = 8
    /\ data[1] = 0 /\ data[2] = 255 /\ data[8] = 1
    /\ encoded = data

OtherEndianness == IF endianness = BIG THEN LITTLE ELSE BIG

\* C14: a successful read(Bool, 1) consumes one byte and returns false exactly
\* when that byte is 0x00 (any byte 0x01..0xFF gives true), whatever the byte
\* order of the reader.
C14_BoolDecode ==
    (call.op = "read" /\ call.kind = BOOL /\ call.arg = 1 /\ ret.ok) =>
        LET consumed == PySlice(data, call.pre, call.pre + 1)
        IN /\ offset = call.pre + 1
           /\ Len(consumed) = 1
           /\ ret.flag = (consumed[1] # 0)
           /\ read(data, call.pre, OtherEndianness, BOOL, 1) = ret

C14_Witness ==
    /\ call.op = "read" /\ call.kind = BOOL /\ call.arg = 1 /\ ret.ok
    /\ data = <<127>> /\ call.pre = 0 /\ ret.flag

\* C15: peek(n) succeeds exactly when has_bytes(n) holds; a successful peek(n)
\* returns the n bytes buffer[offset .. offset+n) and leaves the offset alone;
\* otherwise it fails with OutOfBounds.
C15_PeekContract ==
    call.op = "peek" =>
        IF call.pre + call.arg <= Len(data)
        THEN /\ ret.ok /\ offset = call.pre
             /\ Len(ret.bytes) = call.arg
             /\ \A i \in 1 .. call.arg :
                    /\ call.pre + i \in DOMAIN data
                    /\ ret.bytes[i] = data[call.pre + i]
        ELSE ~ret.ok /\ ErrorKind(ret.err) = "OutOfBounds" /\ offset = call.pre

\* C16: the buffer (contents and length) and the byte order never change: no
\* call, successful or failing, touches anything but the offset.
C16_BufferAndOrderFixed ==
    [][/\ data' = data
       /\ size(data') = size(data)
       /\ endianness' = endianness]_vars

C16_Witness ==
    /\ call.op = "read" /\ call.kind = BYTES /\ ret.ok
    /\ offset = Len(data) /\ call.pre = 0 /\ Len(data) >= 2

\* C17: the reader starts at offset 0 and never gets stuck: in every reachable
\* state seek(k) succeeds and lands on k, for every k in 0..size().
C17_SeekAlwaysAvailable ==
    /\ call.op = "init" => offset = 0
    /\ \A k \in 0 .. size(data) :
           /\ seek(data, offset, k).ok
           /\ seek(data, offset, k).offset = k

C17_Witness ==
    /\ call.op = "seek" /\ ret.ok
    /\ call.pre = size(data) /\ size(data) >= 1
    /\ call.arg = 0 /\ offset = 0

\* C18: with no seek in between, every successful read or skip consumes the
\* forward range that starts where the previous one ended (no overlap, no
\* gap), and the results of read(RawBytes, _) calls made in a row from offset 0
\* to the end of the buffer add up to the buffer.
C18_ContiguousConsumption ==
    /\ (call.op \in {"read", "skip"} /\ ret.ok) =>
           /\ 0 <= call.pre /\ call.arg >= 0
           /\ offset = call.pre + call.arg
           /\ offset <= Len(data)
    /\ (chain.live /\ offset = Len(data)) => chain.bytes = data

\* C19: at the end of the buffer (offset = size(), also a fresh reader over an
\* empty buffer) every read fails, skip(n) and peek(n) fail for n >= 1, and the
\* offset stays at size(); skip(0), peek(0) and seek(size()) succeed.
C19_AtEnd ==
    call.pre = size(data) =>
        /\ call.op = "read" => (~ret.ok /\ offset = size(data))
        /\ (call.op \in {"skip", "peek"} /\ call.arg >= 1) =>
               (~ret.ok /\ offset = size(data))
        /\ (call.op \in {"skip", "peek"} /\ call.arg = 0) =>
               (ret.ok /\ offset = size(data))
        /\ (call.op = "seek" /\ call.arg = size(data)) =>
               (ret.ok /\ offset = size(data))

C19_Witness ==
    /\ call.op = "read" /\ call.kind = BYTES /\ call.arg = 1
    /\ call.pre = size(data) /\ size(data) >= 1
    /\ ~ret.ok /\ offset = size(data)

\* C20: the byte order only decides which end of the bytes is most
\* significant: an integer read by a Little reader equals the Big decode of the
\* same bytes reversed (and the other way round), 1-byte integers agree, and
\* RawBytes and Bool results, success or failure and the offset reached are
\* those the reader of the other byte order gets for the same call.
C20_EndiannessOnlyOrdersBytes ==
    call.op = "read" =>
        LET other == read(data, call.pre, OtherEndianness, call.kind, call.arg)
            consumed == PySlice(data, call.pre, call.pre + call.arg)
        IN /\ other.ok = ret.ok /\ other.err = ret.err /\ other.offset = offset
           /\ call.kind \in {BYTES, BOOL} => other = ret
           /\ (call.kind \in {UINT, INT} /\ ret.ok) =>
                  /\ ret.num = from_bytes(Reverse(consumed), OtherEndianness, call.kind = INT)
                  /\ call.arg = 1 => other.num = ret.num

C20_Witness ==
    /\ call.op = "read" /\ call.kind = UINT /\ call.arg = 2 /\ ret.ok
    /\ endianness = LITTLE /\ data = <<1, 2>> /\ call.pre = 0
    /\ ret.num = 513

====
